---------------------------- MODULE Spec2Model ----------------------------
(***************************************************************************)
(* A model of assemble/main.go of TrustRootAssembler: the pipeline of      *)
(* main and the functions it is built from (GetLatestMetadataName,         *)
(* DownloadFile, CompressDirectory, EncodeBase64, the manifest name).      *)
(*                                                                         *)
(* Go strings are modelled as sequences of one-character strings, compared *)
(* by their byte values, and file contents as sequences of bytes 0..255.   *)
(***************************************************************************)
EXTENDS Integers, Sequences, FiniteSets, TLC

(***************************************************************************)
(* Bounds of the model.                                                    *)
(***************************************************************************)
\* The longest listing body of SpecResolver, in pieces (see ListingPieces).
MaxPieces == 6
\* The longest listing body of SpecResolver, in whole filenames (NamePieces).
MaxNames == 3
\* The most entries of a directory tree of SpecArchive.
MaxEntries == 4
\* The longest file of SpecEncode, in bytes.
MaxFileLen == 4
\* The longest mirror address of SpecManifest after its scheme, in pieces.
MaxMirrorPieces == 4
\* The last second of the clock.
MaxClock == 2
\* The most files the mirror publishes during a run.
MaxPublishes == 1

(***************************************************************************)
(* Strings.                                                                *)
(***************************************************************************)
\* The byte value of each character the model's strings are made of.
AsciiCodes ==
    "\n" :> 10 @@ " " :> 32 @@ "-" :> 45 @@ "." :> 46 @@ "/" :> 47 @@
    "0" :> 48 @@ "1" :> 49 @@ "2" :> 50 @@ "3" :> 51 @@ "4" :> 52 @@
    "5" :> 53 @@ "6" :> 54 @@ "7" :> 55 @@ "8" :> 56 @@ "9" :> 57 @@
    ":" :> 58 @@ "a" :> 97 @@ "c" :> 99 @@ "d" :> 100 @@ "e" :> 101 @@
    "f" :> 102 @@ "g" :> 103 @@ "h" :> 104 @@
    "i" :> 105 @@ "j" :> 106 @@ "m" :> 109 @@ "n" :> 110 @@ "o" :> 111 @@
    "p" :> 112 @@ "r" :> 114 @@ "s" :> 115 @@ "t" :> 116 @@ "u" :> 117 @@
    "v" :> 118

Ord(c) == AsciiCodes[c]

Digits == {"0", "1", "2", "3", "4", "5", "6", "7", "8", "9"}

\* Go's < on strings: byte-wise, a proper prefix is smaller.
StrLess(a, b) ==
    \E k \in 1..Len(b) :
        /\ k - 1 <= Len(a)
        /\ \A j \in 1..(k - 1) : a[j] = b[j]
        /\ \/ k = Len(a) + 1
           \/ k <= Len(a) /\ Ord(a[k]) < Ord(b[k])

\* strings.HasPrefix(s[i-1:], p), with i a 1-based position.
HasPrefixAt(s, i, p) ==
    /\ i + Len(p) - 1 <= Len(s)
    /\ \A j \in 1..Len(p) : s[i + j - 1] = p[j]

RECURSIVE Concat(_)
\* The concatenation of a sequence of strings.
Concat(ss) == IF ss = <<>> THEN <<>> ELSE Head(ss) \o Concat(Tail(ss))

RECURSIVE Split(_, _)
\* strings.Split(s, sep) for a one-character separator.
Split(s, sep) ==
    IF \A j \in 1..Len(s) : s[j] # sep
    THEN <<s>>
    ELSE LET k == CHOOSE j \in 1..Len(s) :
                      s[j] = sep /\ \A h \in 1..(j - 1) : s[h] # sep
         IN  <<SubSeq(s, 1, k - 1)>> \o Split(SubSeq(s, k + 1, Len(s)), sep)

(***************************************************************************)
(* GetLatestMetadataName (main.go:287-321).                                *)
(***************************************************************************)
RootJSON == <<"r", "o", "o", "t", ".", "j", "s", "o", "n">>
SnapshotJSON == <<"s", "n", "a", "p", "s", "h", "o", "t", ".", "j", "s", "o", "n">>
TargetsJSON == <<"t", "a", "r", "g", "e", "t", "s", ".", "j", "s", "o", "n">>
TimestampJSON == <<"t", "i", "m", "e", "s", "t", "a", "m", "p", ".", "j", "s", "o", "n">>

\* The first position at or after i that holds no digit (Len(s)+1 if none).
DigitRunEnd(s, i) ==
    CHOOSE j \in i..(Len(s) + 1) :
        /\ \A h \in i..(j - 1) : s[h] \in Digits
        /\ j = Len(s) + 1 \/ s[j] \notin Digits

\* The regular expression (\d+\.<QuoteMeta(metadataPattern)>) matches at i.
MatchesAt(line, i, metadataPattern) ==
    /\ line[i] \in Digits
    /\ HasPrefixAt(line, DigitRunEnd(line, i), <<".">> \o metadataPattern)

\* A variant that returns the last match of the line, not the first.
FindStringSubmatch_Last(line, metadataPattern) ==
    LET starts == {i \in 1..Len(line) : MatchesAt(line, i, metadataPattern)}
    IN  IF starts = {} THEN <<>>
        ELSE LET i == CHOOSE x \in starts : \A y \in starts : x >= y
             IN  <<SubSeq(line, i,
                          DigitRunEnd(line, i) + Len(metadataPattern))>>

\* re.FindStringSubmatch(line): <<>> if no match, else <<matches[1]>>, the
\* leftmost match with the digits taken greedily.
FindStringSubmatch(line, metadataPattern) ==
    LET starts == {i \in 1..Len(line) : MatchesAt(line, i, metadataPattern)}
    IN  IF starts = {} THEN <<>>
        ELSE LET i == CHOOSE x \in starts : \A y \in starts : x <= y
             IN  <<SubSeq(line, i,
                          DigitRunEnd(line, i) + Len(metadataPattern))>>

RECURSIVE CollectFiles(_, _)
\* The loop of main.go:307-311 over the lines: files, in order of appending.
CollectFiles(lines, metadataPattern) ==
    IF lines = <<>> THEN <<>>
    ELSE FindStringSubmatch(Head(lines), metadataPattern)
             \o CollectFiles(Tail(lines), metadataPattern)

RECURSIVE InsertSorted(_, _)
InsertSorted(x, sorted) ==
    IF sorted = <<>> THEN <<x>>
    ELSE IF StrLess(x, Head(sorted)) THEN <<x>> \o sorted
    ELSE <<Head(sorted)>> \o InsertSorted(x, Tail(sorted))

RECURSIVE SortStrings(_)
\* sort.Strings(files): increasing by StrLess.
SortStrings(files) ==
    IF files = <<>> THEN <<>>
    ELSE InsertSorted(Head(files), SortStrings(Tail(files)))

\* What http.Get and io.ReadAll give: a transport error, a status, a body,
\* a read error.
Response(getErr, status, body, readErr) ==
    [getErr |-> getErr, status |-> status, body |-> body, readErr |-> readErr]

\* A variant that returns files[0] of the sorted slice, not the last one.
GetLatestMetadataName_First(resp, metadataPattern) ==
    IF resp.getErr THEN [name |-> <<>>, err |-> "get"]
    ELSE IF resp.status # 200 THEN [name |-> <<>>, err |-> "status"]
    ELSE IF resp.readErr THEN [name |-> <<>>, err |-> "read"]
    ELSE LET files == CollectFiles(Split(resp.body, "\n"), metadataPattern)
         IN  IF Len(files) = 0 THEN [name |-> <<>>, err |-> "nomatch"]
             ELSE [name |-> SortStrings(files)[1], err |-> "nil"]

\* GetLatestMetadataName on the response http.Get(mirror) gave.
GetLatestMetadataName(resp, metadataPattern) ==
    IF resp.getErr THEN [name |-> <<>>, err |-> "get"]
    ELSE IF resp.status # 200 THEN [name |-> <<>>, err |-> "status"]
    ELSE IF resp.readErr THEN [name |-> <<>>, err |-> "read"]
    ELSE LET files == CollectFiles(Split(resp.body, "\n"), metadataPattern)
         IN  IF Len(files) = 0 THEN [name |-> <<>>, err |-> "nomatch"]
             ELSE LET sorted == SortStrings(files)
                  IN  [name |-> sorted[Len(sorted)], err |-> "nil"]

(***************************************************************************)
(* Directory trees and CompressDirectory (main.go:208-259).                *)
(*                                                                         *)
(* A directory tree is a function from the paths below its root (a path is *)
(* a sequence of names) to nodes; NoDir is a directory that does not       *)
(* exist.  A tar stream is modelled as its members in order, each a header *)
(* (name, a zero byte, typeflag, size) followed by size bytes of data, and *)
(* ended by the two-zero end marker; the gzip layer as its header bytes,   *)
(* the payload and the payload length as trailer.                          *)
(***************************************************************************)
EmptyTree == [p \in {} |-> 0]

\* A directory that exists, with the tree below it, and one that does not.
Dir(tree) == [exists |-> TRUE, entries |-> tree]
NoDir == [exists |-> FALSE, entries |-> EmptyTree]

DirNode == [kind |-> "dir", data |-> <<>>]

FileNode(data) == [kind |-> "file", data |-> data]

\* The bytes of a string.
Bytes(str) == [k \in 1..Len(str) |-> Ord(str[k])]

Chr(b) == CHOOSE c \in DOMAIN AsciiCodes : AsciiCodes[c] = b

RECURSIVE Join(_, _)
\* strings.Join(elems, sep).
Join(elems, sep) ==
    IF elems = <<>> THEN <<>>
    ELSE IF Len(elems) = 1 THEN elems[1]
    ELSE elems[1] \o sep \o Join(Tail(elems), sep)

\* filepath.Rel(src, path) for a path at or below src.
Rel(path) == IF path = <<>> THEN <<".">> ELSE Join(path, <<"/">>)

RECURSIVE SortedNames(_)
\* The names of a directory in the order filepath.Walk visits them.
SortedNames(names) ==
    IF names = {} THEN <<>>
    ELSE LET m == CHOOSE x \in names : \A y \in names : ~StrLess(y, x)
         IN  <<m>> \o SortedNames(names \ {m})

ChildNames(tree, dir) ==
    { p[Len(p)] : p \in { q \in DOMAIN tree :
                            /\ Len(q) = Len(dir) + 1
                            /\ SubSeq(q, 1, Len(dir)) = dir } }

RECURSIVE Walk(_, _)
RECURSIVE WalkNames(_, _, _)
\* filepath.Walk from path: the paths in the order walkFn is called on them.
Walk(tree, path) ==
    <<path>> \o
        (IF path = <<>> \/ tree[path].kind = "dir"
         THEN WalkNames(tree, path, SortedNames(ChildNames(tree, path)))
         ELSE <<>>)

WalkNames(tree, dir, names) ==
    IF names = <<>> THEN <<>>
    ELSE Walk(tree, dir \o <<Head(names)>>) \o WalkNames(tree, dir, Tail(names))

TypeReg == 48
TypeDir == 53

\* tar.FileInfoHeader(info, "") with header.Name set to name, as
\* tw.WriteHeader writes it.
TarHeader(name, node) ==
    Bytes(name) \o <<0, IF node.kind = "dir" THEN TypeDir ELSE TypeReg,
                        Len(node.data)>>

\* A variant of the walk function that names an entry by info.Name(), the
\* last element of its path, instead of its path relative to src.
WalkFn_BaseName(tree, path) ==
    IF Rel(path) = <<".">> THEN <<>>
    ELSE TarHeader(path[Len(path)], tree[path]) \o
             (IF tree[path].kind = "file" THEN tree[path].data ELSE <<>>)

\* The walk function of main.go:222-257: what one call writes to tw.
WalkFn(tree, path) ==
    IF Rel(path) = <<".">> THEN <<>>
    ELSE TarHeader(Rel(path), tree[path]) \o
             (IF tree[path].kind = "file" THEN tree[path].data ELSE <<>>)

RECURSIVE WriteMembers(_, _)
WriteMembers(tree, paths) ==
    IF paths = <<>> THEN <<>>
    ELSE WalkFn(tree, Head(paths)) \o WriteMembers(tree, Tail(paths))

\* tw.Close(): the end-of-archive marker.
TarTrailer == <<0, 0>>

\* gw.Close() after the writes: header, payload, length trailer.
Gzip(payload) == <<31, 139, 8>> \o payload \o <<Len(payload) % 256>>

\* CompressDirectory(src, dst): the error returned and the bytes of dst once
\* the deferred Close calls have run.
CompressDirectory(src) ==
    IF ~src.exists
    THEN [err |-> TRUE, bytes |-> Gzip(TarTrailer)]
    ELSE [err |-> FALSE,
          bytes |-> Gzip(WriteMembers(src.entries, Walk(src.entries, <<>>))
                             \o TarTrailer)]

(***************************************************************************)
(* EncodeBase64 (main.go:269-275).                                         *)
(***************************************************************************)
\* A file that can be read, with its content, and one that cannot.
File(data) == [exists |-> TRUE, data |-> data]
NoFile == [exists |-> FALSE, data |-> <<>>]

\* base64.StdEncoding's alphabet.
StdAlphabet ==
    << "A", "B", "C", "D", "E", "F", "G", "H", "I", "J", "K", "L", "M",
       "N", "O", "P", "Q", "R", "S", "T", "U", "V", "W", "X", "Y", "Z",
       "a", "b", "c", "d", "e", "f", "g", "h", "i", "j", "k", "l", "m",
       "n", "o", "p", "q", "r", "s", "t", "u", "v", "w", "x", "y", "z",
       "0", "1", "2", "3", "4", "5", "6", "7", "8", "9", "+", "/" >>

StdPadding == "="

Sextet(v) == StdAlphabet[v + 1]

RECURSIVE EncodeToString_NoPadding(_)
\* A variant that leaves the padding out (base64.RawStdEncoding).
EncodeToString_NoPadding(data) ==
    IF Len(data) = 0 THEN <<>>
    ELSE IF Len(data) = 1
    THEN << Sextet(data[1] \div 4), Sextet((data[1] % 4) * 16) >>
    ELSE IF Len(data) = 2
    THEN << Sextet(data[1] \div 4),
            Sextet((data[1] % 4) * 16 + data[2] \div 16),
            Sextet((data[2] % 16) * 4) >>
    ELSE << Sextet(data[1] \div 4),
            Sextet((data[1] % 4) * 16 + data[2] \div 16),
            Sextet((data[2] % 16) * 4 + data[3] \div 64),
            Sextet(data[3] % 64) >>
             \o EncodeToString_NoPadding(SubSeq(data, 4, Len(data)))

RECURSIVE EncodeToString(_)
\* base64.StdEncoding.EncodeToString(data).
EncodeToString(data) ==
    IF Len(data) = 0 THEN <<>>
    ELSE IF Len(data) = 1
    THEN << Sextet(data[1] \div 4), Sextet((data[1] % 4) * 16),
            StdPadding, StdPadding >>
    ELSE IF Len(data) = 2
    THEN << Sextet(data[1] \div 4),
            Sextet((data[1] % 4) * 16 + data[2] \div 16),
            Sextet((data[2] % 16) * 4), StdPadding >>
    ELSE << Sextet(data[1] \div 4),
            Sextet((data[1] % 4) * 16 + data[2] \div 16),
            Sextet((data[2] % 16) * 4 + data[3] \div 64),
            Sextet(data[3] % 64) >>
             \o EncodeToString(SubSeq(data, 4, Len(data)))

\* EncodeBase64(sourceFile) on the file os.ReadFile finds under sourceFile's
\* name.
EncodeBase64(file) ==
    IF ~file.exists THEN [str |-> <<>>, err |-> TRUE]
    ELSE [str |-> EncodeToString(file.data), err |-> FALSE]

(***************************************************************************)
(* The manifest's resource name (main.go:143-153).                         *)
(***************************************************************************)
HTTPS == <<"h", "t", "t", "p", "s", ":", "/", "/">>
HTTP == <<"h", "t", "t", "p", ":", "/", "/">>

RECURSIVE ReplaceAll(_, _, _)
\* strings.ReplaceAll(str, old, new) for a non-empty old: the matches are
\* found left to right and do not overlap.
ReplaceAll(str, old, new) ==
    IF Len(str) < Len(old) THEN str
    ELSE IF HasPrefixAt(str, 1, old)
    THEN new \o ReplaceAll(SubSeq(str, Len(old) + 1, Len(str)), old, new)
    ELSE <<Head(str)>> \o ReplaceAll(Tail(str), old, new)

RECURSIVE Itoa(_)
\* The %d rendering of a number >= 0.
Itoa(n) ==
    IF n < 10 THEN <<Chr(48 + n)>>
    ELSE Itoa(n \div 10) \o <<Chr(48 + (n % 10))>>

\* A variant that names the manifest by the mirror alone.
ManifestName_NoTimestamp(mirrorFlag, now) ==
    ReplaceAll(mirrorFlag, HTTPS, <<>>)

\* The name the manifest is given: "%s-%d" of the mirror without https://
\* and time.Now().Unix().
ManifestName(mirrorFlag, now) ==
    ReplaceAll(mirrorFlag, HTTPS, <<>>) \o <<"-">> \o Itoa(now)

(***************************************************************************)
(* DownloadFile, cleanupLocalTUFRepository and the pieces of main          *)
(* (main.go:25-184).                                                       *)
(***************************************************************************)
\* main.go:62.
madatadas == <<RootJSON, SnapshotJSON, TargetsJSON, TimestampJSON>>

\* The body of the mirror's listing: the published names, one per line.
ListingBody(names) == Join(SortedNames(names), <<"\n">>)

\* What a GET of the listing may give while the names are published.
ListingResponses(names) ==
    { Response(FALSE, 200, ListingBody(names), FALSE),
      Response(TRUE, 0, <<>>, FALSE),
      Response(FALSE, 404, <<>>, FALSE),
      Response(FALSE, 200, ListingBody(names), TRUE) }

\* The document the mirror serves under a name: told apart by its name.
Document(name) == Bytes(name)

\* What a GET of <mirror>/<name> may give: the document if the name is
\* served, a 404 if not, a transport error, or a body that breaks off.
FetchOutcomes(names, name) ==
    (IF name \in names \cup {TimestampJSON} THEN {"ok"} ELSE {"404"})
        \cup {"get", "copy"}

\* DownloadFile(destinationFile, url): the error and what io.Copy wrote.
DownloadFile(outcome, name) ==
    IF outcome = "ok" THEN [err |-> FALSE, written |-> Document(name)]
    ELSE IF outcome = "copy"
    THEN [err |-> TRUE,
          written |-> SubSeq(Document(name), 1, Len(Document(name)) \div 2)]
    ELSE [err |-> TRUE, written |-> <<>>]

\* A variant that leaves the directory in place and reports no error.
cleanupLocalTUFRepository_Keep(tufDir, failure) ==
    [err |-> failure, dir |-> tufDir]

\* cleanupLocalTUFRepository (main.go:158-164): os.RemoveAll($HOME/.sigstore).
cleanupLocalTUFRepository(tufDir, failure) ==
    IF failure THEN [err |-> TRUE, dir |-> tufDir]
    ELSE [err |-> FALSE, dir |-> NoDir]

RootName == <<"r", "o", "o", "t">>
TargetsName == <<"t", "a", "r", "g", "e", "t", "s">>

\* $HOME/.sigstore as an earlier run left it.
StaleStore ==
    Dir(<<RootName>> :> DirNode
        @@ <<RootName, TargetsName>> :> DirNode
        @@ <<RootName, TargetsName, <<"e">>>> :> FileNode(<<0>>))

\* $HOME/.sigstore as tuf.Initialize leaves it on success, with or without
\* a directory of targets.
PopulatedStore(withTargets) ==
    IF withTargets
    THEN Dir(<<RootName>> :> DirNode
             @@ <<RootName, TargetsName>> :> DirNode
             @@ <<RootName, TargetsName, <<"a">>>> :> FileNode(<<1, 2>>))
    ELSE Dir(<<RootName>> :> DirNode)

\* $HOME/.sigstore as tuf.Initialize may leave it on failure.
FailedStores == { NoDir, Dir(<<RootName>> :> DirNode) }

IsUnder(p, prefix) ==
    Len(p) >= Len(prefix) /\ SubSeq(p, 1, Len(prefix)) = prefix

\* os.Rename(from, to) of a directory: the tree of the source directory
\* without the subtree.
RenameFrom(tree, from) ==
    [p \in {q \in DOMAIN tree : ~IsUnder(q, from)} |-> tree[p]]

\* ... and the tree of the destination directory with it.
RenameTo(tree, source, from, to) ==
    LET moved == {q \in DOMAIN source : IsUnder(q, from)}
    IN  [p \in DOMAIN tree
                 \cup {to \o SubSeq(q, Len(from) + 1, Len(q)) : q \in moved} |->
            IF p \in DOMAIN tree THEN tree[p]
            ELSE source[from \o SubSeq(p, Len(to) + 1, Len(p))]]

\* The file of a directory tree under a name of the directory's root.
FileAt(dir, name) ==
    IF dir.exists /\ <<name>> \in DOMAIN dir.entries
           /\ dir.entries[<<name>>].kind = "file"
    THEN File(dir.entries[<<name>>].data)
    ELSE NoFile

\* The document main prints (main.go:143-154).
trustRootYAML(mirrorFlag, now, b64RootJSON, b64RepositoryArchive) ==
    [name |-> ManifestName(mirrorFlag, now),
     root |-> b64RootJSON,
     mirrorFS |-> b64RepositoryArchive]

(***************************************************************************)
(* State.                                                                  *)
(***************************************************************************)
VARIABLES
    \* SpecResolver: one call of GetLatestMetadataName.
    resp,              \* what http.Get(mirror) and io.ReadAll give
    metadataPattern,   \* the role suffix asked for
    latest,            \* the (name, err) returned
    \* SpecArchive: one call of CompressDirectory.
    src,               \* the source directory
    arc,               \* the error returned and the bytes of dst
    \* SpecEncode: one call of EncodeBase64.
    sourceFile,        \* the file under sourceFile.Name()
    encoded,           \* the (string, err) returned
    \* SpecManifest and Spec: the mirror flag and the wall clock, in seconds.
    mirror,
    clock,
    \* SpecManifest: runs of the pipeline against the same mirror.
    started,           \* run -> the second it was started in, -1 before
    emitted,           \* run -> the name it printed and the second of printing
    \* Spec: one run of main.
    pc,                \* the operation main is about to do
    exitStatus,        \* the status the process exited with, -1 before
    published,         \* the versioned files the mirror serves and lists
    publishes,         \* how many files the mirror published during the run
    temporaryWorkingDirectory,
    trustStore,        \* $HOME/.sigstore
    repositoryArchive, \* the temporary file repository-*.tar.gz
    locals,            \* the local variables of main
    stdout,            \* what was printed to standard output
    failedOps,         \* the operations that returned an error, in order
    opsAfterFailure    \* the operations begun after one had failed

resolverVars == <<resp, metadataPattern, latest>>
archiveVars == <<src, arc>>
encodeVars == <<sourceFile, encoded>>
manifestVars == <<mirror, clock, started, emitted>>

pipelineVars ==
    <<pc, exitStatus, published, publishes, temporaryWorkingDirectory,
      trustStore, repositoryArchive, locals, stdout, failedOps,
      opsAfterFailure>>

vars == <<resolverVars, archiveVars, encodeVars, manifestVars, pipelineVars>>

NoResult == [name |-> <<>>, err |-> "pending"]
NotCompressed == [done |-> FALSE, err |-> FALSE, bytes |-> <<>>]
NotEncoded == [done |-> FALSE, err |-> FALSE, str |-> <<>>]
Runs == {1, 2}
NotEmitted == [done |-> FALSE, name |-> <<>>, at |-> 0]

\* main.go:27.
DefaultMirror ==
    HTTPS \o << "t", "u", "f", "-", "r", "e", "p", "o", "-", "c", "d", "n",
                ".", "s", "i", "g", "s", "t", "o", "r", "e", ".", "d", "e",
                "v" >>

ResolverIdle ==
    /\ resp = Response(FALSE, 200, <<>>, FALSE)
    /\ metadataPattern = RootJSON
    /\ latest = NoResult

ArchiveIdle ==
    /\ src = NoDir
    /\ arc = NotCompressed

EncodeIdle ==
    /\ sourceFile = NoFile
    /\ encoded = NotEncoded

ManifestIdle ==
    /\ mirror = DefaultMirror
    /\ clock = 0
    /\ started = [r \in Runs |-> -1]
    /\ emitted = [r \in Runs |-> NotEmitted]

\* The local variables of main before main.go:50.
NoLocals ==
    [latestRootName |-> <<>>, rootURL |-> <<>>, idx |-> 1,
     metadataName |-> <<>>, metadataURL |-> <<>>, rootJSONFile |-> <<>>,
     rootJSON |-> <<>>, b64RepositoryArchive |-> <<>>, b64RootJSON |-> <<>>]

PipelineIdle ==
    /\ pc = "NotStarted"
    /\ exitStatus = -1
    /\ published = {}
    /\ publishes = 0
    /\ temporaryWorkingDirectory = NoDir
    /\ trustStore = NoDir
    /\ repositoryArchive = NoFile
    /\ locals = NoLocals
    /\ stdout = <<>>
    /\ failedOps = <<>>
    /\ opsAfterFailure = <<>>

(***************************************************************************)
(* SpecResolver: GetLatestMetadataName as a function of the listing.       *)
(***************************************************************************)
\* What a listing of one role is made of: version digits, the role's suffix
\* and newlines.
ListingPieces(pattern) ==
    { <<"1">>, <<"2">>, <<".">> \o pattern, <<"\n">> }

\* What a listing of whole filenames is made of: names of both roles with
\* versions of one and two digits, newlines and other text.
NamePieces ==
    { v \o <<".">> \o r :
        v \in { <<"2">>, <<"9">>, <<"1", "0">>, <<"1", "2">> },
        r \in { RootJSON, SnapshotJSON } }
        \cup { <<"\n">>, <<" ">> }

\* The strings of at most n of the given pieces.
Bodies(pieces, n) ==
    { Concat(ps) : ps \in UNION { [1..k -> pieces] : k \in 0..n } }

InitResolver ==
    /\ metadataPattern \in {RootJSON, SnapshotJSON}
    /\ resp \in { Response(FALSE, 200, b, FALSE) :
                     b \in Bodies(ListingPieces(metadataPattern), MaxPieces)
                           \cup Bodies(NamePieces, MaxNames) }
            \cup { Response(TRUE, 0, <<>>, FALSE),
                   Response(FALSE, 404, <<"1">>, FALSE),
                   Response(FALSE, 200, <<"1">>, TRUE) }
    /\ latest = NoResult
    /\ ArchiveIdle /\ EncodeIdle /\ ManifestIdle /\ PipelineIdle

Resolve ==
    /\ latest = NoResult
    /\ latest' = GetLatestMetadataName(resp, metadataPattern)
    /\ UNCHANGED <<resp, metadataPattern>>
    /\ UNCHANGED <<archiveVars, encodeVars, manifestVars, pipelineVars>>

NextResolver == Resolve

SpecResolver == InitResolver /\ [][NextResolver]_vars

(***************************************************************************)
(* SpecArchive: a directory is built as the tests build it (os.MkdirTemp,  *)
(* os.WriteFile, os.Mkdir) and CompressDirectory is called on it.          *)
(***************************************************************************)
ArchiveNames == { <<"a">>, <<"e">> }

ArchiveData == { <<>>, <<0, 255>> }

\* The paths a new entry of the tree may get: below the root or below one of
\* its directories.
FreePaths(tree) ==
    { d \o <<n>> :
        d \in {<<>>} \cup {q \in DOMAIN tree : tree[q].kind = "dir"},
        n \in ArchiveNames } \ DOMAIN tree

InitArchive ==
    /\ src \in {NoDir, Dir(EmptyTree)}
    /\ arc = NotCompressed
    /\ ResolverIdle /\ EncodeIdle /\ ManifestIdle /\ PipelineIdle

WriteFile ==
    /\ src.exists /\ ~arc.done
    /\ Cardinality(DOMAIN src.entries) < MaxEntries
    /\ \E p \in FreePaths(src.entries), data \in ArchiveData :
           src' = Dir(src.entries @@ (p :> FileNode(data)))
    /\ UNCHANGED <<arc, resolverVars, encodeVars, manifestVars, pipelineVars>>

Mkdir ==
    /\ src.exists /\ ~arc.done
    /\ Cardinality(DOMAIN src.entries) < MaxEntries
    /\ \E p \in FreePaths(src.entries) :
           src' = Dir(src.entries @@ (p :> DirNode))
    /\ UNCHANGED <<arc, resolverVars, encodeVars, manifestVars, pipelineVars>>

Compress ==
    /\ ~arc.done
    /\ arc' = LET r == CompressDirectory(src)
              IN  [done |-> TRUE, err |-> r.err, bytes |-> r.bytes]
    /\ UNCHANGED <<src, resolverVars, encodeVars, manifestVars, pipelineVars>>

NextArchive == WriteFile \/ Mkdir \/ Compress

SpecArchive == InitArchive /\ [][NextArchive]_vars

(***************************************************************************)
(* SpecEncode: a file is written byte by byte and EncodeBase64 is called   *)
(* on it.                                                                  *)
(***************************************************************************)
ByteSamples == {0, 1, 104, 128, 255}

\* "hello world" (TestEncodeBase64).
HelloWorld == <<104, 101, 108, 108, 111, 32, 119, 111, 114, 108, 100>>

InitEncode ==
    /\ sourceFile \in {NoFile, File(<<>>), File(HelloWorld)}
    /\ encoded = NotEncoded
    /\ ResolverIdle /\ ArchiveIdle /\ ManifestIdle /\ PipelineIdle

WriteByte ==
    /\ sourceFile.exists /\ ~encoded.done
    /\ Len(sourceFile.data) < MaxFileLen
    /\ \E b \in ByteSamples : sourceFile' = File(Append(sourceFile.data, b))
    /\ UNCHANGED <<encoded, resolverVars, archiveVars, manifestVars,
                   pipelineVars>>

Encode ==
    /\ ~encoded.done
    /\ encoded' = LET r == EncodeBase64(sourceFile)
                  IN  [done |-> TRUE, err |-> r.err, str |-> r.str]
    /\ UNCHANGED <<sourceFile, resolverVars, archiveVars, manifestVars,
                   pipelineVars>>

NextEncode == WriteByte \/ Encode

SpecEncode == InitEncode /\ [][NextEncode]_vars

(***************************************************************************)
(* SpecManifest: runs against one mirror; each is started, takes its time  *)
(* and prints its manifest, named by the clock at the time of printing.    *)
(***************************************************************************)
MirrorPieces ==
    { HTTPS, <<"m", "/">>, <<"h", "t">>, <<"t", "p", "s", ":", "/", "/">> }

InitManifest ==
    /\ mirror \in { scheme \o b : scheme \in {HTTPS, HTTP},
                                  b \in Bodies(MirrorPieces, MaxMirrorPieces) }
    /\ clock = 0
    /\ started = [r \in Runs |-> -1]
    /\ emitted = [r \in Runs |-> NotEmitted]
    /\ ResolverIdle /\ ArchiveIdle /\ EncodeIdle /\ PipelineIdle

Tick ==
    /\ clock < MaxClock
    /\ clock' = clock + 1
    /\ UNCHANGED <<mirror, started, emitted>>
    /\ UNCHANGED <<resolverVars, archiveVars, encodeVars, pipelineVars>>

StartRun(r) ==
    /\ started[r] = -1
    /\ started' = [started EXCEPT ![r] = clock]
    /\ UNCHANGED <<mirror, clock, emitted>>
    /\ UNCHANGED <<resolverVars, archiveVars, encodeVars, pipelineVars>>

EmitManifest(r) ==
    /\ started[r] >= 0 /\ ~emitted[r].done
    /\ emitted' = [emitted EXCEPT ![r] =
                       [done |-> TRUE, name |-> ManifestName(mirror, clock),
                        at |-> clock]]
    /\ UNCHANGED <<mirror, clock, started>>
    /\ UNCHANGED <<resolverVars, archiveVars, encodeVars, pipelineVars>>

NextManifest ==
    \/ Tick
    \/ \E r \in Runs : StartRun(r)
    \/ \E r \in Runs : EmitManifest(r)

SpecManifest == InitManifest /\ [][NextManifest]_vars

(***************************************************************************)
(* Spec: one run of main (main.go:25-155) against a mirror that may publish *)
(* further files while the run goes on.  Every operation that can fail may  *)
(* fail.  pc names the operation main is about to do.                       *)
(***************************************************************************)
\* The versioned files the mirror may have published.
PublishedNames ==
    { <<"1", ".">> \o RootJSON, <<"2", ".">> \o RootJSON,
      <<"1", ".">> \o SnapshotJSON, <<"1", ".">> \o TargetsJSON }

Init ==
    /\ pc = "MkdirTemp"
    /\ exitStatus = -1
    /\ published \in SUBSET PublishedNames
    /\ publishes = 0
    /\ temporaryWorkingDirectory = NoDir
    /\ trustStore \in {NoDir, StaleStore}
    /\ repositoryArchive = NoFile
    /\ locals = NoLocals
    /\ stdout = <<>>
    /\ failedOps = <<>>
    /\ opsAfterFailure = <<>>
    /\ ResolverIdle /\ ArchiveIdle /\ EncodeIdle /\ ManifestIdle

\* The operations begun after an operation has failed, with op begun now.
After(op) ==
    IF failedOps # <<>> THEN Append(opsAfterFailure, op) ELSE opsAfterFailure

\* main goes on to next after op, which returned an error or not.
Proceed(op, err, next) ==
    /\ opsAfterFailure' = After(op)
    /\ failedOps' = IF err THEN Append(failedOps, op) ELSE failedOps
    /\ pc' = next
    /\ exitStatus' = exitStatus

\* log.Fatalf after op failed: os.Exit(1), the deferred calls do not run.
logFatalf(op) ==
    /\ opsAfterFailure' = After(op)
    /\ failedOps' = Append(failedOps, op)
    /\ pc' = "Exited"
    /\ exitStatus' = 1

unchangedByMain ==
    UNCHANGED <<published, publishes, resolverVars, archiveVars, encodeVars,
                manifestVars>>

\* The mirror publishes a further file.
MirrorPublish ==
    /\ pc # "Exited"
    /\ publishes < MaxPublishes
    /\ \E n \in PublishedNames \ published : published' = published \cup {n}
    /\ publishes' = publishes + 1
    /\ UNCHANGED <<pc, exitStatus, temporaryWorkingDirectory, trustStore,
                   repositoryArchive, locals, stdout, failedOps,
                   opsAfterFailure>>
    /\ UNCHANGED <<resolverVars, archiveVars, encodeVars, manifestVars>>

\* main.go:43-47.
MkdirTemp ==
    /\ pc = "MkdirTemp"
    /\ \E failure \in BOOLEAN :
           IF failure
           THEN /\ logFatalf("os.MkdirTemp")
                /\ UNCHANGED temporaryWorkingDirectory
           ELSE /\ Proceed("os.MkdirTemp", FALSE, "ResolveRoot")
                /\ temporaryWorkingDirectory' = Dir(EmptyTree)
    /\ UNCHANGED <<trustStore, repositoryArchive, locals, stdout>>
    /\ unchangedByMain

\* main.go:50-59.
ResolveRoot ==
    /\ pc = "ResolveRoot"
    /\ \E r \in ListingResponses(published) :
           LET res == GetLatestMetadataName(r, RootJSON)
           IN  IF res.name = <<>>
               THEN /\ logFatalf("GetLatestMetadataName")
                    /\ UNCHANGED locals
               ELSE /\ Proceed("GetLatestMetadataName", res.err # "nil",
                               "LoopResolve")
                    /\ locals' = [locals EXCEPT
                                      !.latestRootName = res.name,
                                      !.rootURL = mirror \o <<"/">> \o res.name,
                                      !.idx = 1]
    /\ UNCHANGED <<temporaryWorkingDirectory, trustStore, repositoryArchive,
                   stdout>>
    /\ unchangedByMain

\* main.go:64-71: the name, the URL and the path of the idx-th file.
LoopResolve ==
    /\ pc = "LoopResolve"
    /\ LET metadata == madatadas[locals.idx]
       IN  IF metadata = TimestampJSON
           THEN /\ Proceed("timestamp.json", FALSE, "Create")
                /\ locals' = [locals EXCEPT
                                  !.metadataName = TimestampJSON,
                                  !.metadataURL =
                                      mirror \o <<"/">> \o TimestampJSON]
           ELSE \E r \in ListingResponses(published) :
                    LET res == GetLatestMetadataName(r, metadata)
                    IN  /\ Proceed("GetLatestMetadataName",
                                   res.err # "nil", "Create")
                        /\ locals' = [locals EXCEPT
                                          !.metadataName = res.name,
                                          !.metadataURL =
                                              mirror \o <<"/">> \o res.name]
    /\ UNCHANGED <<temporaryWorkingDirectory, trustStore, repositoryArchive,
                   stdout>>
    /\ unchangedByMain

\* main.go:72-75.  filepath.Join(dir, "") is dir, which os.Create cannot
\* open for writing.  When os.Create fails metadataFile is nil, and the
\* metadataFile.Name() among log.Fatalf's arguments panics: the deferred
\* os.RemoveAll runs and the process exits with status 2.
Create ==
    /\ pc = "Create"
    /\ \E failure \in {locals.metadataName = <<>>, TRUE} :
           IF failure
           THEN /\ opsAfterFailure' = After("os.Create")
                /\ failedOps' = Append(failedOps, "os.Create")
                /\ pc' = "Exited"
                /\ exitStatus' = 2
                /\ temporaryWorkingDirectory' = NoDir
           ELSE /\ Proceed("os.Create", FALSE, "Download")
                /\ temporaryWorkingDirectory' =
                       Dir((<<locals.metadataName>> :> FileNode(<<>>))
                               @@ temporaryWorkingDirectory.entries)
    /\ UNCHANGED <<trustStore, repositoryArchive, locals, stdout>>
    /\ unchangedByMain

\* main.go:76-86.
Download ==
    /\ pc = "Download"
    /\ \E outcome \in FetchOutcomes(published, locals.metadataName) :
           LET got == DownloadFile(outcome, locals.metadataName)
           IN  /\ temporaryWorkingDirectory' =
                      Dir((<<locals.metadataName>> :> FileNode(got.written))
                              @@ temporaryWorkingDirectory.entries)
               /\ IF got.err
                  THEN /\ logFatalf("DownloadFile")
                       /\ UNCHANGED locals
                  ELSE /\ Proceed("DownloadFile", FALSE,
                                  IF locals.idx = Len(madatadas)
                                  THEN "Cleanup" ELSE "LoopResolve")
                       /\ locals' = [locals EXCEPT
                              !.rootJSONFile =
                                  IF madatadas[locals.idx] = RootJSON
                                  THEN locals.metadataName ELSE @,
                              !.idx = IF @ = Len(madatadas) THEN @ ELSE @ + 1]
    /\ UNCHANGED <<trustStore, repositoryArchive, stdout>>
    /\ unchangedByMain

\* main.go:89-91.
Cleanup ==
    /\ pc = "Cleanup"
    /\ \E failure \in BOOLEAN :
           LET done == cleanupLocalTUFRepository(trustStore, failure)
           IN  /\ trustStore' = done.dir
               /\ IF done.err
                  THEN logFatalf("cleanupLocalTUFRepository")
                  ELSE Proceed("cleanupLocalTUFRepository", FALSE, "ReadRoot")
    /\ UNCHANGED <<temporaryWorkingDirectory, repositoryArchive, locals,
                   stdout>>
    /\ unchangedByMain

\* main.go:95: the error of os.ReadFile is discarded.
ReadRoot ==
    /\ pc = "ReadRoot"
    /\ \E file \in {FileAt(temporaryWorkingDirectory, locals.rootJSONFile),
                    NoFile} :
           /\ Proceed("os.ReadFile", ~file.exists, "Initialize")
           /\ locals' = [locals EXCEPT !.rootJSON = file.data]
    /\ UNCHANGED <<temporaryWorkingDirectory, trustStore, repositoryArchive,
                   stdout>>
    /\ unchangedByMain

\* main.go:96-98.  tuf.Initialize is the library's: it succeeds or fails,
\* and leaves its store behind.
Initialize ==
    /\ pc = "Initialize"
    /\ \/ /\ \E withTargets \in BOOLEAN :
                 trustStore' = PopulatedStore(withTargets)
          /\ Proceed("tuf.Initialize", FALSE, "GetRootStatus")
       \/ /\ trustStore' \in FailedStores
          /\ logFatalf("tuf.Initialize")
    /\ UNCHANGED <<temporaryWorkingDirectory, repositoryArchive, locals,
                   stdout>>
    /\ unchangedByMain

\* main.go:101-109.
GetRootStatus ==
    /\ pc = "GetRootStatus"
    /\ \E failure \in BOOLEAN :
           IF failure THEN logFatalf("tuf.GetRootStatus")
           ELSE Proceed("tuf.GetRootStatus", FALSE, "Rename")
    /\ UNCHANGED <<temporaryWorkingDirectory, trustStore, repositoryArchive,
                   locals, stdout>>
    /\ unchangedByMain

\* main.go:112-117: $HOME/.sigstore/root/targets becomes <dir>/targets.
Rename ==
    /\ pc = "Rename"
    /\ LET from == <<RootName, TargetsName>>
           to == <<TargetsName>>
           missing == ~trustStore.exists
                          \/ from \notin DOMAIN trustStore.entries
       IN  \E failure \in {missing, TRUE} :
               IF failure
               THEN /\ logFatalf("os.Rename")
                    /\ UNCHANGED <<temporaryWorkingDirectory, trustStore>>
               ELSE /\ Proceed("os.Rename", FALSE, "CreateTemp")
                    /\ trustStore' = Dir(RenameFrom(trustStore.entries, from))
                    /\ temporaryWorkingDirectory' =
                           Dir(RenameTo(temporaryWorkingDirectory.entries,
                                        trustStore.entries, from, to))
    /\ UNCHANGED <<repositoryArchive, locals, stdout>>
    /\ unchangedByMain

\* main.go:120-124.
CreateTemp ==
    /\ pc = "CreateTemp"
    /\ \E failure \in BOOLEAN :
           IF failure
           THEN /\ logFatalf("os.CreateTemp")
                /\ UNCHANGED repositoryArchive
           ELSE /\ Proceed("os.CreateTemp", FALSE, "CompressRepository")
                /\ repositoryArchive' = File(<<>>)
    /\ UNCHANGED <<temporaryWorkingDirectory, trustStore, locals, stdout>>
    /\ unchangedByMain

\* main.go:125-128: CompressDirectory, which may also fail on its files.
CompressRepository ==
    /\ pc = "CompressRepository"
    /\ \E ioFailure \in BOOLEAN :
           LET r == CompressDirectory(temporaryWorkingDirectory)
           IN  IF r.err \/ ioFailure
               THEN /\ logFatalf("CompressDirectory")
                    /\ UNCHANGED repositoryArchive
               ELSE /\ Proceed("CompressDirectory", FALSE, "EncodeArchive")
                    /\ repositoryArchive' = File(r.bytes)
    /\ UNCHANGED <<temporaryWorkingDirectory, trustStore, locals, stdout>>
    /\ unchangedByMain

\* main.go:131-134.
EncodeArchive ==
    /\ pc = "EncodeArchive"
    /\ \E file \in {repositoryArchive, NoFile} :
           LET r == EncodeBase64(file)
           IN  IF r.err
               THEN /\ logFatalf("EncodeBase64")
                    /\ UNCHANGED locals
               ELSE /\ Proceed("EncodeBase64", FALSE, "EncodeRoot")
                    /\ locals' = [locals EXCEPT !.b64RepositoryArchive = r.str]
    /\ UNCHANGED <<temporaryWorkingDirectory, trustStore, repositoryArchive,
                   stdout>>
    /\ unchangedByMain

\* main.go:137-140.
EncodeRoot ==
    /\ pc = "EncodeRoot"
    /\ \E file \in {FileAt(temporaryWorkingDirectory, locals.rootJSONFile),
                    NoFile} :
           LET r == EncodeBase64(file)
           IN  IF r.err
               THEN /\ logFatalf("EncodeBase64")
                    /\ UNCHANGED locals
               ELSE /\ Proceed("EncodeBase64", FALSE, "Emit")
                    /\ locals' = [locals EXCEPT !.b64RootJSON = r.str]
    /\ UNCHANGED <<temporaryWorkingDirectory, trustStore, repositoryArchive,
                   stdout>>
    /\ unchangedByMain

\* main.go:143-155: the manifest is printed, main returns, the deferred
\* os.RemoveAll runs and the process exits with status 0.
Emit ==
    /\ pc = "Emit"
    /\ stdout' = Append(stdout,
                        trustRootYAML(mirror, clock, locals.b64RootJSON,
                                      locals.b64RepositoryArchive))
    /\ opsAfterFailure' = After("fmt.Println")
    /\ failedOps' = failedOps
    /\ temporaryWorkingDirectory' = NoDir
    /\ pc' = "Exited"
    /\ exitStatus' = 0
    /\ UNCHANGED <<trustStore, repositoryArchive, locals>>
    /\ unchangedByMain

Next ==
    \/ Tick
    \/ MirrorPublish
    \/ MkdirTemp
    \/ ResolveRoot
    \/ LoopResolve
    \/ Create
    \/ Download
    \/ Cleanup
    \/ ReadRoot
    \/ Initialize
    \/ GetRootStatus
    \/ Rename
    \/ CreateTemp
    \/ CompressRepository
    \/ EncodeArchive
    \/ EncodeRoot
    \/ Emit

Spec == Init /\ [][Next]_vars

(***************************************************************************)
(* Claims about GetLatestMetadataName, checked under SpecResolver.         *)
(***************************************************************************)
RECURSIVE Atoi(_)
\* The number a string of digits denotes.
Atoi(ds) ==
    IF ds = <<>> THEN 0
    ELSE 10 * Atoi(SubSeq(ds, 1, Len(ds) - 1)) + (Ord(ds[Len(ds)]) - 48)

\* The version digits of a name <version>.<role suffix>.
VersionDigits(name) == SubSeq(name, 1, DigitRunEnd(name, 1) - 1)

\* The call returned a name.
Resolved == latest # NoResult /\ latest.err = "nil"

\* The CandidateSet the Parser extracted from the body.
CandidateSet ==
    LET files == CollectFiles(Split(resp.body, "\n"), metadataPattern)
    IN  {files[k] : k \in 1..Len(files)}

UniformDigitLength ==
    \A f, g \in CandidateSet : Len(VersionDigits(f)) = Len(VersionDigits(g))

\* C4: over a non-empty CandidateSet whose version numbers all have the same
\* number of digits, the name returned is a candidate with the numerically
\* greatest version.
C4_UniformLengthGivesNumericLatest ==
    (Resolved /\ UniformDigitLength) =>
        /\ latest.name \in CandidateSet
        /\ \A f \in CandidateSet :
               Atoi(VersionDigits(f)) <= Atoi(VersionDigits(latest.name))

\* C4 witness: two candidates of two digits each with different versions, and
\* the call has returned.
C4_Witness ==
    /\ Resolved
    /\ UniformDigitLength
    /\ \E f, g \in CandidateSet :
           /\ Len(VersionDigits(f)) = 2
           /\ Atoi(VersionDigits(f)) < Atoi(VersionDigits(g))

\* The places of the body where a filename <digits, taken maximally>.<suffix>
\* starts.
OccurrenceStarts ==
    { i \in 1..Len(resp.body) :
        /\ MatchesAt(resp.body, i, metadataPattern)
        /\ i = 1 \/ resp.body[i - 1] \notin Digits }

OccurrenceAt(i) ==
    SubSeq(resp.body, i, DigitRunEnd(resp.body, i) + Len(metadataPattern))

\* The occurrences that no other occurrence precedes on their line.
FirstOnLineStarts ==
    { i \in OccurrenceStarts :
        \A j \in OccurrenceStarts :
            j < i => \E h \in j..(i - 1) : resp.body[h] = "\n" }

StrGreatest(names, n) == n \in names /\ \A m \in names : ~StrLess(n, m)

\* C9 as stated: every occurrence in the body is a candidate, so the name
\* returned is the string-greatest occurrence of the whole body.
C9_EveryOccurrenceCollected ==
    Resolved =>
        /\ \A i \in OccurrenceStarts : OccurrenceAt(i) \in CandidateSet
        /\ StrGreatest({OccurrenceAt(i) : i \in OccurrenceStarts}, latest.name)

\* C9 amended: the candidates are exactly the first occurrence of each line
\* (a second filename on a line is not collected); the call fails exactly
\* when there is none, and otherwise returns the string-greatest of them.
C9_FirstOccurrencePerLineCollected ==
    (latest # NoResult /\ latest.err \in {"nil", "nomatch"}) =>
        /\ CandidateSet = {OccurrenceAt(i) : i \in FirstOnLineStarts}
        /\ (latest.err = "nomatch") = (FirstOnLineStarts = {})
        /\ latest.err = "nil" =>
               StrGreatest({OccurrenceAt(i) : i \in FirstOnLineStarts},
                           latest.name)

\* C9 witness: a line holds two filenames, the second of them the greater,
\* and the call has returned the first.
C9_Witness ==
    /\ Resolved
    /\ \E i \in OccurrenceStarts \ FirstOnLineStarts :
           StrLess(latest.name, OccurrenceAt(i))

(***************************************************************************)
(* Claims about CompressDirectory, checked under SpecArchive.              *)
(***************************************************************************)
\* The payload of a gzip stream, <<-1>> if the stream is not well formed.
Gunzip(bytes) ==
    IF /\ Len(bytes) >= 4
       /\ SubSeq(bytes, 1, 3) = <<31, 139, 8>>
       /\ bytes[Len(bytes)] = (Len(bytes) - 4) % 256
    THEN SubSeq(bytes, 4, Len(bytes) - 1)
    ELSE <<-1>>

RECURSIVE TarMembers(_)
\* The members of a tar stream, in order, up to its end marker.
TarMembers(stream) ==
    IF stream = <<>> \/ stream[1] <= 0 THEN <<>>
    ELSE LET z == CHOOSE k \in 1..Len(stream) :
                      stream[k] = 0 /\ \A h \in 1..(k - 1) : stream[h] # 0
             size == stream[z + 2]
         IN  << [name |-> [k \in 1..(z - 1) |-> Chr(stream[k])],
                 typeflag |-> stream[z + 1],
                 data |-> SubSeq(stream, z + 3, z + 2 + size)] >>
                 \o TarMembers(SubSeq(stream, z + 3 + size, Len(stream)))

\* The tree that extracting the members into an empty directory gives.
Extract(members) ==
    LET paths == { Split(members[k].name, "/") : k \in 1..Len(members) }
        last(p) == CHOOSE k \in 1..Len(members) :
                       /\ Split(members[k].name, "/") = p
                       /\ \A h \in (k + 1)..Len(members) :
                              Split(members[h].name, "/") # p
    IN  [p \in paths |->
            IF members[last(p)].typeflag = TypeDir THEN DirNode
            ELSE FileNode(members[last(p)].data)]

ArchiveMembers == TarMembers(Gunzip(arc.bytes))

\* C6: CompressDirectory fails on a source directory that does not exist and
\* succeeds on every tree; the archive then holds exactly one entry per file
\* or directory below the root, named by its path relative to the root, none
\* for the root itself, and extracting it gives the same paths with the same
\* file contents.
C6_ArchiveRoundTrip ==
    arc.done =>
        IF ~src.exists THEN arc.err
        ELSE /\ ~arc.err
             /\ Len(ArchiveMembers) = Cardinality(DOMAIN src.entries)
             /\ { ArchiveMembers[k].name : k \in 1..Len(ArchiveMembers) }
                    = { Join(p, <<"/">>) : p \in DOMAIN src.entries }
             /\ \A k \in 1..Len(ArchiveMembers) :
                    ArchiveMembers[k].name \notin { <<>>, <<".">> }
             /\ Extract(ArchiveMembers) = src.entries

\* C6 witness: a tree with a non-empty file in a subdirectory and an empty
\* directory has been archived.
C6_Witness ==
    /\ arc.done /\ src.exists
    /\ \E p, q \in DOMAIN src.entries :
           /\ Len(p) = 2 /\ src.entries[p] = FileNode(<<0, 255>>)
           /\ src.entries[q].kind = "dir"
           /\ ChildNames(src.entries, q) = {}

(***************************************************************************)
(* Claims about EncodeBase64, checked under SpecEncode.                    *)
(***************************************************************************)
\* The value of a character of the standard alphabet.
StdValue(c) == (CHOOSE k \in 1..64 : StdAlphabet[k] = c) - 1

RECURSIVE DecodeString(_)
\* The bytes a padded base64 string of the standard alphabet stands for.
DecodeString(str) ==
    IF str = <<>> THEN <<>>
    ELSE LET v(k) == StdValue(str[k])
             b1 == v(1) * 4 + v(2) \div 16
             b2 == (v(2) % 16) * 16 + v(3) \div 4
             b3 == (v(3) % 4) * 64 + v(4)
             rest == SubSeq(str, 5, Len(str))
         IN  IF str[3] = "=" THEN <<b1>>
             ELSE IF str[4] = "=" THEN <<b1, b2>>
             ELSE <<b1, b2, b3>> \o DecodeString(rest)

\* "aGVsbG8gd29ybGQ=" (TestEncodeBase64).
HelloWorldBase64 ==
    << "a", "G", "V", "s", "b", "G", "8", "g", "d", "2", "9", "y", "b", "G",
       "Q", "=" >>

\* C8: EncodeBase64 returns the padded standard base64 of the whole file,
\* which decodes to the file's bytes; the empty string and no error for an
\* empty file; the empty string and an error for a file it cannot read.
C8_EncodeBase64RoundTrip ==
    encoded.done =>
        IF ~sourceFile.exists THEN encoded.err /\ encoded.str = <<>>
        ELSE /\ ~encoded.err
             /\ Len(encoded.str) = 4 * ((Len(sourceFile.data) + 2) \div 3)
             /\ \A k \in 1..Len(encoded.str) :
                    \/ \E a \in 1..64 : StdAlphabet[a] = encoded.str[k]
                    \/ /\ encoded.str[k] = "="
                       /\ k > Len(encoded.str) - 2
             /\ DecodeString(encoded.str) = sourceFile.data
             /\ sourceFile.data = <<>> => encoded.str = <<>>
             /\ sourceFile.data = HelloWorld => encoded.str = HelloWorldBase64

\* C8 witness: a file of two bytes, one of them 255, has been encoded.
C8_Witness ==
    /\ encoded.done /\ sourceFile.exists
    /\ Len(sourceFile.data) = 2
    /\ sourceFile.data[2] = 255

(***************************************************************************)
(* Claims about the manifest's name, checked under SpecManifest.           *)
(***************************************************************************)
Contains(str, sub) == \E i \in 1..Len(str) : HasPrefixAt(str, i, sub)

\* The places where https:// occurs in the mirror address.
SchemePlaces == { i \in 1..Len(mirror) : HasPrefixAt(mirror, i, HTTPS) }

RECURSIVE KeptFrom(_, _)
\* The characters of the mirror address from place i on that no occurrence
\* of https:// (at one of the given places) covers.
KeptFrom(i, places) ==
    IF i > Len(mirror) THEN <<>>
    ELSE (IF \A j \in places : i < j \/ i >= j + Len(HTTPS)
          THEN <<mirror[i]>> ELSE <<>>) \o KeptFrom(i + 1, places)

\* The mirror address without its occurrences of https://.
Kept == KeptFrom(1, SchemePlaces)

\* C7 as stated: the name never contains https://, and two runs started at
\* least a second apart print different names.
C7_NameFreeOfSchemeAndDistinctByStart ==
    /\ \A r \in Runs : emitted[r].done => ~Contains(emitted[r].name, HTTPS)
    /\ \A r1, r2 \in Runs :
           (/\ emitted[r1].done /\ emitted[r2].done
            /\ started[r2] - started[r1] >= 1)
               => emitted[r1].name # emitted[r2].name

\* C7 amended: the name is the mirror address without its occurrences of
\* https://, a dash, and the clock's second at the time of printing in
\* decimal; it holds no https:// if the mirror holds it only as its leading
\* scheme; two runs print the same name exactly when they print in the same
\* second.
C7_NameByMirrorAndPrintingSecond ==
    /\ \A r \in Runs :
           emitted[r].done =>
               LET name == emitted[r].name
                   kept == Kept
                   n == Len(kept)
               IN  /\ Len(name) >= n + 2
                   /\ SubSeq(name, 1, n) = kept
                   /\ name[n + 1] = "-"
                   /\ \A k \in (n + 2)..Len(name) : name[k] \in Digits
                   /\ name[n + 2] = "0" => Len(name) = n + 2
                   /\ Atoi(SubSeq(name, n + 2, Len(name))) = emitted[r].at
                   /\ emitted[r].at \in started[r]..clock
                   /\ SchemePlaces \subseteq {1} => ~Contains(name, HTTPS)
    /\ \A r1, r2 \in Runs :
           (emitted[r1].done /\ emitted[r2].done) =>
               ((emitted[r1].name = emitted[r2].name)
                    <=> (emitted[r1].at = emitted[r2].at))

\* C7 witness: two runs started a second apart have printed in the same
\* second, against a mirror address that holds https:// twice.
C7_Witness ==
    /\ emitted[1].done /\ emitted[2].done
    /\ started[2] - started[1] >= 1
    /\ emitted[1].at = emitted[2].at
    /\ Cardinality(SchemePlaces) = 2

(***************************************************************************)
(* Claims about main, checked under Spec.                                  *)
(***************************************************************************)
\* C1: once the process has exited, on whatever path, the temporary working
\* directory no longer exists.
C1_WorkingDirectoryGoneAtExit ==
    pc = "Exited" => ~temporaryWorkingDirectory.exists

C3_FailFast ==
    failedOps # <<>> =>
        /\ opsAfterFailure = <<>>
        /\ stdout = <<>>
        /\ Len(failedOps) = 1
        /\ pc = "Exited" /\ exitStatus # 0

\* C5: no fetch URL and no destination file is built from an empty name.
C5_NoEmptyNameUsed ==
    /\ pc = "Create" => locals.metadataName # <<>>
    /\ locals.metadataURL # mirror \o <<"/">>
    /\ temporaryWorkingDirectory.exists =>
           <<<<>>>> \notin DOMAIN temporaryWorkingDirectory.entries

\* C10: the root document of a printed manifest is the one the first
\* resolution named: that file was downloaded, was the one read for
\* tuf.Initialize (if the read gave anything) and is the one encoded.
C10_RootIsTheOneFirstResolved ==
    stdout # <<>> =>
        /\ locals.rootJSONFile = locals.latestRootName
        /\ locals.rootJSON \in {<<>>, Document(locals.latestRootName)}
        /\ stdout[1].root = EncodeToString(Document(locals.latestRootName))

=============================================================================
